---- MODULE Spec2Model ----
\* Model of the streamflow analysis engine (src/analyzer.py): a Dataset is
\* analysed into a report (StreamflowAnalyzer.analyze) and the report is
\* normalised and written as JSON (StreamflowAnalyzer.save_results).
\*
\* Floating-point numbers are modelled as exact rationals [num, den] in lowest
\* terms with den > 0; the IEEE not-a-number value is the record with den = 0.
\* Python values carry their run-time type in the field ty, because
\* _make_serializable and json.dump dispatch on it.
\*
\* The last step of main (src/main.py) hands the saved results to
\* GitManager.commit_and_push (src/git_manager.py), modelled one git command
\* at a time: cmds records every command run with its outcome.
EXTENDS Integers, Sequences, FiniteSets, TLC

VARIABLES pc, df, tieRev, results, error, document,
          gitpc, config, cmds, ret, propagated

analyzervars == <<pc, df, tieRev, results, error, document>>
gitvars == <<gitpc, config, cmds, ret, propagated>>
vars == <<analyzervars, gitvars>>

-----------------------------------------------------------------------------
\* Bounds of the model.

\* Longest dataset whose observations are enumerated exhaustively.
MaxLen == 3
\* Largest timestamp (in seconds) of an exhaustively enumerated observation.
MaxT == 1
\* Largest discharge value of an exhaustively enumerated observation; a
\* patterned dataset takes values up to one more.
MaxV == 1
\* Longest patterned dataset (hourly series of one site).
MaxLong == 25
\* Most leading observations of a patterned dataset that carry the value a.
MaxK == 2
\* Most characters of the output of git status --porcelain.
MaxOut == 2

-----------------------------------------------------------------------------
\* Floating-point values.

Abs(x) == IF x < 0 THEN -x ELSE x

RECURSIVE Gcd(_, _)
Gcd(a, b) == IF b = 0 THEN a ELSE Gcd(b, a % b)

NaN == [num |-> 0, den |-> 0]

IsNaN(x) == x.den = 0

\* The rational n/d, d # 0, in lowest terms.
Rat(n, d) ==
    LET g == Gcd(Abs(n), Abs(d))
        s == IF d < 0 THEN -1 ELSE 1
    IN  [num |-> s * (n \div g), den |-> s * (d \div g)]

Num(n) == [num |-> n, den |-> 1]

\* Arithmetic propagates NaN.
FAdd(x, y) == IF IsNaN(x) \/ IsNaN(y) THEN NaN
              ELSE Rat(x.num * y.den + y.num * x.den, x.den * y.den)
FSub(x, y) == IF IsNaN(x) \/ IsNaN(y) THEN NaN
              ELSE Rat(x.num * y.den - y.num * x.den, x.den * y.den)
FMul(x, y) == IF IsNaN(x) \/ IsNaN(y) THEN NaN
              ELSE Rat(x.num * y.num, x.den * y.den)
\* Division, used only where the code has excluded a zero divisor.
FDiv(x, y) == IF IsNaN(x) \/ IsNaN(y) THEN NaN
              ELSE Rat(x.num * y.den, x.den * y.num)

\* Every ordered comparison with NaN is false; != with NaN is true.
FLt(x, y) == ~IsNaN(x) /\ ~IsNaN(y) /\ x.num * y.den < y.num * x.den
FLe(x, y) == ~IsNaN(x) /\ ~IsNaN(y) /\ x.num * y.den <= y.num * x.den
FGt(x, y) == FLt(y, x)
FGe(x, y) == FLe(y, x)
FEq(x, y) == ~IsNaN(x) /\ ~IsNaN(y) /\ x.num * y.den = y.num * x.den
FNe(x, y) == ~FEq(x, y)

-----------------------------------------------------------------------------
\* Python values tagged with their run-time type.

PyFloat(x)   == [ty |-> "float", v |-> x]
NpFloat(x)   == [ty |-> "np.float64", v |-> x]
PyInt(n)     == [ty |-> "int", v |-> n]
PyStr(s)     == [ty |-> "str", v |-> s]
Timestamp(t) == [ty |-> "Timestamp", v |-> t]
PyDict(r)    == [ty |-> "dict", v |-> r]
PyList(s)    == [ty |-> "list", v |-> s]
None         == [ty |-> "NoneType", v |-> 0]

-----------------------------------------------------------------------------
\* Datasets: the frames handed to analyze.

SiteCode == "01646500"
SiteName == "POTOMAC"

Values == {NaN} \cup {Num(i) : i \in 0..MaxV}

Observation(t, x) ==
    [dateTime |-> t, site_code |-> SiteCode, site_name |-> SiteName,
     discharge_cfs |-> x]

Observations == {Observation(t, x) : t \in 0..MaxT, x \in Values}

\* Every frame of at most MaxLen rows, the empty frame included.
SmallDatasets == UNION {[1..n -> Observations] : n \in 0..MaxLen}

\* An hourly series of n rows: the k earliest rows hold a, the latest row
\* holds b, every other row holds 1; rows are inserted in time order or in
\* reverse time order.
LongDataset(n, k, a, b, desc) ==
    [i \in 1..n |->
        LET j == IF desc THEN n + 1 - i ELSE i
        IN  Observation(j - 1,
                        IF j = n THEN b ELSE IF j <= k THEN a ELSE Num(1))]

LongValues == Values \cup {Num(MaxV + 1)}

LongDatasets ==
    {LongDataset(n, k, a, b, desc) :
        n \in (MaxLen + 1)..MaxLong, k \in 0..MaxK,
        a \in LongValues, b \in LongValues, desc \in BOOLEAN}

Datasets == SmallDatasets \cup LongDatasets


-----------------------------------------------------------------------------
\* Frame operations (pandas).

\* df.sort_values('dateTime'): row indices in ascending timestamp order. Rows
\* with equal timestamps come out in insertion order or in reverse insertion
\* order, depending on the sort the build uses (tieRev).
Before(d, rev, i, j) ==
    \/ d[i].dateTime < d[j].dateTime
    \/ /\ d[i].dateTime = d[j].dateTime
       /\ IF rev THEN i > j ELSE i < j

SortValues(d, rev) ==
    [p \in 1..Len(d) |->
        CHOOSE i \in 1..Len(d) :
            Cardinality({j \in 1..Len(d) : Before(d, rev, j, i)}) = p - 1]

\* Row indices whose discharge is not missing (dropna / skipna).
Valid(d) == {i \in 1..Len(d) : ~IsNaN(d[i].discharge_cfs)}

\* The k-th smallest non-missing discharge, k in 1..Cardinality(Valid(d)).
KthSmallest(d, k) ==
    LET x == CHOOSE i \in Valid(d) :
                 /\ Cardinality({j \in Valid(d) :
                        FLt(d[j].discharge_cfs, d[i].discharge_cfs)}) < k
                 /\ Cardinality({j \in Valid(d) :
                        FLe(d[j].discharge_cfs, d[i].discharge_cfs)}) >= k
    IN  d[x].discharge_cfs

\* A variant of Series.quantile that takes the lower order statistic instead
\* of interpolating (interpolation='lower').
QuantileLower(d, qn, qd) ==
    LET m == Cardinality(Valid(d))
        i == ((m - 1) * qn) \div qd
    IN  IF m = 0 THEN NaN ELSE KthSmallest(d, i + 1)

\* Series.quantile(qn/qd): linear interpolation between order statistics of
\* the non-missing values; NaN when there are none.
Quantile(d, qn, qd) ==
    LET m == Cardinality(Valid(d))
        i == ((m - 1) * qn) \div qd
        r == ((m - 1) * qn) % qd
    IN  IF m = 0 THEN NaN
        ELSE IF r = 0 THEN KthSmallest(d, i + 1)
        ELSE FAdd(KthSmallest(d, i + 1),
                  FMul(Rat(r, qd),
                       FSub(KthSmallest(d, i + 2), KthSmallest(d, i + 1))))

RECURSIVE SumOver(_, _)
SumOver(f, S) ==
    IF S = {} THEN 0
    ELSE LET i == CHOOSE i \in S : TRUE IN f[i] + SumOver(f, S \ {i})

\* The integer value of a non-missing discharge (observations hold integers).
Cfs(d) == [i \in Valid(d) |-> d[i].discharge_cfs.num]

\* Series.mean(), skipping missing values; NaN when there are none.
Mean(d) ==
    IF Valid(d) = {} THEN NaN
    ELSE Rat(SumOver(Cfs(d), Valid(d)), Cardinality(Valid(d)))

\* A variant of Series.min() that reports 0 for a series without values.
MinOrZero(d) == IF Valid(d) = {} THEN Num(0) ELSE KthSmallest(d, 1)

\* Series.min() and Series.max(), skipping missing values.
Min(d) == IF Valid(d) = {} THEN NaN ELSE KthSmallest(d, 1)
Max(d) == IF Valid(d) = {} THEN NaN ELSE KthSmallest(d, Cardinality(Valid(d)))

\* Series.std() is the square root of the sample variance (N-1 denominator);
\* the model reports the variance under the root. NaN below two values.
Std(d) ==
    LET m  == Cardinality(Valid(d))
        s1 == SumOver(Cfs(d), Valid(d))
        s2 == SumOver([i \in Valid(d) |-> Cfs(d)[i] * Cfs(d)[i]], Valid(d))
    IN  IF m < 2 THEN NaN ELSE Rat(m * s2 - s1 * s1, m * (m - 1))


-----------------------------------------------------------------------------
\* Trend Estimator.

\* time_numeric of row i: seconds since the earliest timestamp of the frame.
TimeNumeric(d) ==
    LET t0 == CHOOSE t \in {d[i].dateTime : i \in 1..Len(d)} :
                  \A i \in 1..Len(d) : t <= d[i].dateTime
    IN  [i \in 1..Len(d) |-> d[i].dateTime - t0]

\* Sums of squares and products of the regression over the valid rows, each
\* scaled by the squared number of points, and the degrees of freedom.
Moments(d) ==
    LET V  == Valid(d)
        x  == TimeNumeric(d)
        y  == Cfs(d)
        n  == Cardinality(V)
        sx == SumOver(x, V)
        sy == SumOver(y, V)
    IN  [sxx |-> n * SumOver([i \in V |-> x[i] * x[i]], V) - sx * sx,
         syy |-> n * SumOver([i \in V |-> y[i] * y[i]], V) - sy * sy,
         sxy |-> n * SumOver([i \in V |-> x[i] * y[i]], V) - sx * sy,
         dof |-> n - 2]

\* Squared two-sided 5% critical value of Student's t, in thousandths, by
\* degrees of freedom.
TCritSq ==
    <<161448, 18513, 10128, 7709, 6608, 5987, 5591, 5318, 5117, 4965,
      4844, 4747, 4667, 4600, 4543, 4494, 4451, 4414, 4381, 4351,
      4325, 4301, 4279, 4260, 4242, 4225, 4210, 4196, 4183, 4171>>

\* a * 1000 >= t * b for a >= 0, b > 0, t in 1..200000, without leaving the
\* range of machine integers.
GeThousandths(a, b, t) ==
    LET q  == a \div b
        rm == a % b
        f  == t - 1000 * q
        g  == rm - f * (b \div 1000)
    IN  IF q > t \div 1000 THEN TRUE
        ELSE IF f <= 0 THEN TRUE
        ELSE IF f >= 1000 THEN FALSE
        ELSE IF g >= 1000 THEN TRUE
        ELSE IF g < 0 THEN FALSE
        ELSE g * 1000 >= f * (b % 1000)

\* linregress rejects the null hypothesis slope = 0 at the 5% level:
\* t^2 = dof * r^2 / (1 - r^2) reaches the critical value.
Significant(m) ==
    LET a == m.dof * m.sxy * m.sxy
        b == m.sxx * m.syy - m.sxy * m.sxy
    IN  IF m.sxy = 0 THEN FALSE
        ELSE IF b = 0 THEN TRUE
        ELSE GeThousandths(a, b, TCritSq[m.dof])

\* The p-values linregress may report for the frame. With r = 0 the p-value is
\* exactly 1; otherwise it is some value on the side of 0.05 that the t test
\* decides, 0.05 itself included on the rejecting side.
PValues(d) ==
    LET m == Moments(d)
    IN  IF m.sxy = 0 THEN {Num(1)}
        ELSE IF Significant(m) THEN {Rat(1, 1000), Rat(1, 20)}
        ELSE {Rat(51, 1000), Rat(1, 2)}

\* scipy.stats.linregress raises ValueError when all x values are identical.
LinregressRaises(d) == Moments(d).sxx = 0

LinregressSlope(m) == Rat(m.sxy, m.sxx)

\* r_value ** 2; r is 0 when the values have no variance.
LinregressRSquared(m) ==
    IF m.syy = 0 THEN Num(0) ELSE Rat(m.sxy * m.sxy, m.sxx * m.syy)

\* A variant whose significance test is p_value >= 0.05.
TrendDirectionInclusive(p_value, slope) ==
    IF FGe(p_value, Rat(5, 100)) THEN "stable"
    ELSE IF FGt(slope, Num(0)) THEN "increasing"
    ELSE "decreasing"

TrendDirection(p_value, slope) ==
    IF FGt(p_value, Rat(5, 100)) THEN "stable"
    ELSE IF FGt(slope, Num(0)) THEN "increasing"
    ELSE "decreasing"

\* _analyze_trend raises exactly when linregress is reached and raises.
AnalyzeTrendRaises(d) == Cardinality(Valid(d)) >= 3 /\ LinregressRaises(d)

\* _analyze_trend(df), where p_value is the p-value linregress reports.
AnalyzeTrend(d, p_value) ==
    IF Cardinality(Valid(d)) < 3
    THEN PyDict([slope |-> PyInt(0),
                 direction |-> PyStr("insufficient data"),
                 p_value |-> PyFloat(Num(1))])
    ELSE LET m     == Moments(d)
             slope == LinregressSlope(m)
         IN  PyDict([slope |-> PyFloat(slope),
                     direction |-> PyStr(TrendDirection(p_value, slope)),
                     r_squared |-> PyFloat(LinregressRSquared(m)),
                     p_value |-> PyFloat(p_value)])


-----------------------------------------------------------------------------
\* Anomaly Detector.

LowerBound(Q1, Q3) == FSub(Q1, FMul(Rat(3, 2), FSub(Q3, Q1)))

UpperBound(Q1, Q3) == FAdd(Q3, FMul(Rat(3, 2), FSub(Q3, Q1)))

\* A variant of the row mask that also flags values on the fence.
IsAnomalyInclusive(row, lower_bound, upper_bound) ==
    \/ FLe(row.discharge_cfs, lower_bound)
    \/ FGe(row.discharge_cfs, upper_bound)

\* The row mask of _detect_anomalies.
IsAnomaly(row, lower_bound, upper_bound) ==
    \/ FLt(row.discharge_cfs, lower_bound)
    \/ FGt(row.discharge_cfs, upper_bound)

\* One record of to_dict('records'): pandas boxes the float and the string as
\* native Python values and the timestamp as a pandas Timestamp.
AnomalyRecord(row) ==
    PyDict([dateTime |-> Timestamp(row.dateTime),
            discharge_cfs |-> PyFloat(row.discharge_cfs),
            site_name |-> PyStr(row.site_name)])

\* _detect_anomalies(df): the masked rows, in frame order.
DetectAnomalies(d) ==
    LET Q1   == Quantile(d, 1, 4)
        Q3   == Quantile(d, 3, 4)
        lo   == LowerBound(Q1, Q3)
        hi   == UpperBound(Q1, Q3)
        rows == SelectSeq(d, LAMBDA row : IsAnomaly(row, lo, hi))
    IN  PyList([i \in 1..Len(rows) |-> AnomalyRecord(rows[i])])

-----------------------------------------------------------------------------
\* Flow Classifier.

\* df.sort_values('dateTime').iloc[-1]['discharge_cfs'], for a non-empty frame.
LatestFlow(d, rev) == d[SortValues(d, rev)[Len(d)]].discharge_cfs

\* (df['discharge_cfs'] <= latest_flow).mean() * 100: the mean of a boolean
\* column that has one entry per row of the frame.
Percentile(d, latest_flow) ==
    Rat(100 * Cardinality({i \in 1..Len(d) :
                              FLe(d[i].discharge_cfs, latest_flow)}),
        Len(d))

\* A variant whose thresholds are exclusive lower bounds.
FlowStatusExclusive(percentile) ==
    IF FGt(percentile, Num(90)) THEN "High Flow"
    ELSE IF FGt(percentile, Num(75)) THEN "Above Normal"
    ELSE IF FGt(percentile, Num(25)) THEN "Normal"
    ELSE IF FGt(percentile, Num(10)) THEN "Below Normal"
    ELSE "Low Flow"

FlowStatus(percentile) ==
    IF FGe(percentile, Num(90)) THEN "High Flow"
    ELSE IF FGe(percentile, Num(75)) THEN "Above Normal"
    ELSE IF FGe(percentile, Num(25)) THEN "Normal"
    ELSE IF FGe(percentile, Num(10)) THEN "Below Normal"
    ELSE "Low Flow"

\* iloc[-1] on an empty frame raises IndexError.
ClassifyFlowRaises(d) == Len(d) = 0

\* _classify_flow(df), for a non-empty frame.
ClassifyFlow(d, rev) ==
    LET latest_flow == LatestFlow(d, rev)
        percentile  == Percentile(d, latest_flow)
    IN  PyDict([status |-> PyStr(FlowStatus(percentile)),
                latest_flow |-> PyFloat(latest_flow),
                percentile |-> PyFloat(percentile)])

-----------------------------------------------------------------------------
\* Recent-Change Calculator.

\* A variant that always takes the first row as the reference.
PreviousIndexFirst(n) == 1

\* Position in the sorted frame (1-based) of the row that iloc[-24] or
\* iloc[0] selects.
PreviousIndex(n) == IF n >= 24 THEN n - 24 + 1 ELSE 1

\* A variant that reports no change when an endpoint is missing.
CalculateRecentChangeSkipMissing(d, rev) ==
    LET sorted     == SortValues(d, rev)
        latest     == d[sorted[Len(d)]].discharge_cfs
        previous   == d[sorted[PreviousIndex(Len(d))]].discharge_cfs
        change_cfs == FSub(latest, previous)
        change_pct == IF FNe(previous, Num(0))
                      THEN FMul(FDiv(change_cfs, previous), Num(100))
                      ELSE Num(0)
    IN  IF Len(d) < 2 \/ IsNaN(latest) \/ IsNaN(previous)
        THEN PyDict([change_pct |-> PyInt(0), change_cfs |-> PyInt(0)])
        ELSE PyDict([change_cfs |-> PyFloat(change_cfs),
                     change_pct |-> PyFloat(change_pct)])

\* _calculate_recent_change(df) reporting the change as a fraction of the
\* reference rather than in percent.
CalculateRecentChangeFraction(d, rev) ==
    LET sorted     == SortValues(d, rev)
        latest     == d[sorted[Len(d)]].discharge_cfs
        previous   == d[sorted[PreviousIndex(Len(d))]].discharge_cfs
        change_cfs == FSub(latest, previous)
        change_pct == IF FNe(previous, Num(0))
                      THEN FDiv(change_cfs, previous)
                      ELSE change_cfs
    IN  IF Len(d) < 2
        THEN PyDict([change_pct |-> PyInt(0), change_cfs |-> PyInt(0)])
        ELSE PyDict([change_cfs |-> PyFloat(change_cfs),
                     change_pct |-> PyFloat(change_pct)])

\* _calculate_recent_change(df).
CalculateRecentChange(d, rev) ==
    LET sorted     == SortValues(d, rev)
        latest     == d[sorted[Len(d)]].discharge_cfs
        previous   == d[sorted[PreviousIndex(Len(d))]].discharge_cfs
        change_cfs == FSub(latest, previous)
        change_pct == IF FNe(previous, Num(0))
                      THEN FMul(FDiv(change_cfs, previous), Num(100))
                      ELSE Num(0)
    IN  IF Len(d) < 2
        THEN PyDict([change_pct |-> PyInt(0), change_cfs |-> PyInt(0)])
        ELSE PyDict([change_cfs |-> PyFloat(change_cfs),
                     change_pct |-> PyFloat(change_pct)])


-----------------------------------------------------------------------------
\* Summary, report assembly and serialisation.

\* f"{x:.0f}" of a number: the nearest integer, ties to even.
RoundHalfEven(x) ==
    LET q  == x.num \div x.den
        r2 == 2 * (x.num - q * x.den)
    IN  IF r2 < x.den THEN q
        ELSE IF r2 > x.den THEN q + 1
        ELSE IF q % 2 = 0 THEN q ELSE q + 1

\* _generate_summary(results): the parts of the formatted line. The average
\* prints as "nan" when the mean is NaN; the anomaly clause is appended only
\* for a positive count.
GenerateSummary(status, trend, mean, anomaly_count) ==
    PyStr([status |-> status,
           avg |-> IF IsNaN(mean) THEN "nan" ELSE "number",
           avg_rounded |-> IF IsNaN(mean) THEN 0 ELSE RoundHalfEven(mean),
           trend |-> trend,
           anomalies_clause |-> anomaly_count > 0,
           anomalies |-> IF anomaly_count > 0 THEN anomaly_count ELSE 0])

\* df['site_code'].unique().tolist()
RECURSIVE Unique(_)
Unique(s) ==
    IF s = <<>> THEN <<>>
    ELSE LET init == Unique(SubSeq(s, 1, Len(s) - 1))
         IN  IF \E i \in 1..Len(init) : init[i] = s[Len(s)]
             THEN init ELSE Append(init, s[Len(s)])

SitesAnalyzed(d) ==
    LET codes == Unique([i \in 1..Len(d) |-> d[i].site_code])
    IN  PyList([i \in 1..Len(codes) |-> PyStr(codes[i])])

\* The exception analyze(df) raises, or "none".
AnalyzeRaises(d) ==
    IF AnalyzeTrendRaises(d) THEN "ValueError"
    ELSE IF ClassifyFlowRaises(d) THEN "IndexError"
    ELSE "none"

\* analyze(df): the report, when nothing raises.
AnalyzeResults(d, rev, p_value) ==
    LET trend       == AnalyzeTrend(d, p_value)
        anomalies   == DetectAnomalies(d)
        flow_status == ClassifyFlow(d, rev)
        mean_flow   == Mean(d)
    IN  PyDict([
          mean_flow       |-> NpFloat(mean_flow),
          median_flow     |-> NpFloat(Quantile(d, 1, 2)),
          std_flow        |-> NpFloat(Std(d)),
          min_flow        |-> NpFloat(Min(d)),
          max_flow        |-> NpFloat(Max(d)),
          total_records   |-> PyInt(Len(d)),
          percentile_25   |-> NpFloat(Quantile(d, 1, 4)),
          percentile_75   |-> NpFloat(Quantile(d, 3, 4)),
          percentile_90   |-> NpFloat(Quantile(d, 9, 10)),
          trend           |-> trend,
          trend_slope     |-> trend.v.slope,
          trend_direction |-> trend.v.direction,
          anomalies       |-> anomalies,
          anomaly_count   |-> PyInt(Len(anomalies.v)),
          flow_status     |-> flow_status,
          recent_change   |-> CalculateRecentChange(d, rev),
          summary         |-> GenerateSummary(flow_status.v.status.v,
                                              trend.v.direction.v, mean_flow,
                                              Len(anomalies.v)),
          analysis_date   |-> PyStr("now"),
          sites_analyzed  |-> SitesAnalyzed(d)])

\* _make_serializable(obj)
RECURSIVE MakeSerializable(_)
MakeSerializable(obj) ==
    IF obj.ty = "dict"
    THEN PyDict([k \in DOMAIN obj.v |-> MakeSerializable(obj.v[k])])
    ELSE IF obj.ty = "list"
    THEN PyList([i \in DOMAIN obj.v |-> MakeSerializable(obj.v[i])])
    ELSE IF obj.ty \in {"np.int64", "np.float64"}
    THEN PyFloat(obj.v)
    ELSE IF obj.ty = "np.ndarray"
    THEN PyList(obj.v)
    ELSE obj

\* The run-time types of the leaves of a value.
RECURSIVE LeafTypes(_)
LeafTypes(obj) ==
    IF obj.ty \in {"dict", "list"}
    THEN UNION {LeafTypes(obj.v[k]) : k \in DOMAIN obj.v}
    ELSE {obj.ty}

\* What json.dump writes without a default hook; np.float64 passes because it
\* subclasses float.
JsonTypes == {"float", "np.float64", "int", "bool", "str", "NoneType"}

\* json.dump(obj) raises TypeError on any other leaf.
JsonDumpRaises(obj) == ~(LeafTypes(obj) \subseteq JsonTypes)

-----------------------------------------------------------------------------
\* Git manager (src/git_manager.py).

\* The git section of the configuration: auto_commit is read by main with
\* config['git']['auto_commit'], auto_push may be left out.
Configs ==
    {[auto_commit |-> c] : c \in BOOLEAN} \cup
    {[auto_commit |-> c, auto_push |-> p] : c \in BOOLEAN, p \in BOOLEAN}

\* A variant of dict.get that ignores the default and reports False for a
\* key that is not set.
ConfigGetFalse(cfg, key, default) ==
    IF key \in DOMAIN cfg THEN cfg[key] ELSE FALSE

\* self.config.get(key, default)
ConfigGet(cfg, key, default) ==
    IF key \in DOMAIN cfg THEN cfg[key] ELSE default

\* What subprocess.run(cmd, check=True) does: it returns ("ok"), raises
\* CalledProcessError for a non-zero exit status, or raises an OSError such
\* as FileNotFoundError when git cannot be started.
Outcomes == {"ok", "CalledProcessError", "FileNotFoundError"}

\* The captured standard output of git status --porcelain, as characters.
Whitespace == {" ", "\n"}
Chars == Whitespace \cup {"M"}
StatusOutputs == UNION {[1..n -> Chars] : n \in 0..MaxOut}

\* str.strip(): the text without leading and trailing whitespace.
Strip(text) ==
    LET ink == {i \in 1..Len(text) : text[i] \notin Whitespace}
    IN  IF ink = {} THEN <<>>
        ELSE SubSeq(text,
                    CHOOSE i \in ink : \A j \in ink : i <= j,
                    CHOOSE i \in ink : \A j \in ink : j <= i)

\* cmd = ['git'] + args
GitCommand(args) == <<"git">> \o args

\* The record of one _run_git_command call.
Ran(args, outcome, stdout) ==
    [cmd |-> GitCommand(args), outcome |-> outcome, stdout |-> stdout]

\* The except clauses of commit_and_push: CalledProcessError, then Exception,
\* of which every error subprocess.run raises is a subclass.
ExceptionClasses == {"CalledProcessError", "FileNotFoundError"}
CommitAndPushCatches(exc) ==
    exc = "CalledProcessError" \/ exc \in ExceptionClasses


-----------------------------------------------------------------------------
\* The analyzer as a state machine: one analyze call, then one save_results.

HasTies(d) ==
    \E i, j \in 1..Len(d) : i # j /\ d[i].dateTime = d[j].dateTime

\* The frame the caller holds when it calls analyze: any dataset.
Init ==
    /\ pc = "idle"
    /\ df \in Datasets
    /\ tieRev = FALSE
    /\ results = None
    /\ error = "none"
    /\ document = None
    /\ gitpc = "idle"
    /\ config = [auto_commit |-> FALSE]
    /\ cmds = <<>>
    /\ ret = "none"
    /\ propagated = "none"

\* results = analyzer.analyze(df), where the build's sort orders equal
\* timestamps as rev says and linregress reports p_value.
Analyze(rev, p_value) ==
    /\ pc = "idle"
    /\ tieRev' = rev
    /\ LET raised == AnalyzeRaises(df)
       IN  /\ error' = raised
           /\ IF raised # "none"
              THEN /\ pc' = "analyze_raised"
                   /\ results' = None
              ELSE /\ pc' = "analyzed"
                   /\ results' = AnalyzeResults(df, rev, p_value)
    /\ UNCHANGED <<df, document>>
    /\ UNCHANGED gitvars

\* analyzer.save_results(results, filepath)
SaveResults ==
    /\ pc = "analyzed"
    /\ LET results_serializable == MakeSerializable(results)
       IN  /\ document' = results_serializable
           /\ IF JsonDumpRaises(results_serializable)
              THEN /\ pc' = "save_raised"
                   /\ error' = "TypeError"
              ELSE /\ pc' = "saved"
                   /\ error' = "none"
    /\ UNCHANGED <<df, tieRev, results>>
    /\ UNCHANGED gitvars

\* The orders the build's sort may give equal timestamps, and the p-values
\* linregress may report, for the frame d.
TieOrders(d) == IF HasTies(d) THEN BOOLEAN ELSE {FALSE}
Regressions(d) ==
    IF Cardinality(Valid(d)) >= 3 /\ ~LinregressRaises(d)
    THEN PValues(d) ELSE {Num(1)}

Next ==
    \/ /\ pc = "idle"
       /\ \E rev \in TieOrders(df) : \E p \in Regressions(df) : Analyze(rev, p)
    \/ SaveResults

Spec == Init /\ [][Next]_vars


-----------------------------------------------------------------------------
\* The run of main from the fetched frame to the commit: analyze, save, then
\* commit_and_push one git command at a time.

\* The frames of a run that commits: main returns before the analysis when
\* the fetched frame is empty.
FetchedFrames == [1..1 -> Observations]

InitGit ==
    /\ pc = "idle"
    /\ df \in FetchedFrames
    /\ tieRev = FALSE
    /\ results = None
    /\ error = "none"
    /\ document = None
    /\ gitpc = "idle"
    /\ config \in Configs
    /\ cmds = <<>>
    /\ ret = "none"
    /\ propagated = "none"

\* main: if config['git']['auto_commit'], call git_mgr.commit_and_push.
MainCommit ==
    /\ pc = "saved" /\ gitpc = "idle"
    /\ gitpc' = IF config.auto_commit THEN "has_changes" ELSE "done"
    /\ UNCHANGED <<config, cmds, ret, propagated>>
    /\ UNCHANGED analyzervars

\* commit_and_push leaves by return False.
ReturnFalse ==
    /\ gitpc' = "returned"
    /\ ret' = "False"
    /\ UNCHANGED propagated

\* commit_and_push leaves by return True.
ReturnTrue ==
    /\ gitpc' = "returned"
    /\ ret' = "True"
    /\ UNCHANGED propagated

\* A git command raised exc inside the try block of commit_and_push: a
\* matching except clause returns False, otherwise exc reaches the caller.
Except(exc) ==
    IF CommitAndPushCatches(exc)
    THEN ReturnFalse
    ELSE /\ gitpc' = "raised"
         /\ propagated' = exc
         /\ UNCHANGED ret

\* if not self._has_changes(): return False. _has_changes runs
\* git status --porcelain, reports whether its stripped output is non-empty,
\* and reports False when the command raises.
HasChanges(outcome, stdout) ==
    /\ gitpc = "has_changes"
    /\ cmds' = Append(cmds, Ran(<<"status", "--porcelain">>, outcome, stdout))
    /\ LET has_changes == IF outcome = "ok"
                          THEN Len(Strip(stdout)) > 0
                          ELSE FALSE
       IN  IF has_changes
           THEN /\ gitpc' = "add"
                /\ UNCHANGED <<ret, propagated>>
           ELSE ReturnFalse
    /\ UNCHANGED config
    /\ UNCHANGED analyzervars

\* self._run_git_command(['add', '.'])
Add(outcome) ==
    /\ gitpc = "add"
    /\ cmds' = Append(cmds, Ran(<<"add", ".">>, outcome, <<>>))
    /\ IF outcome = "ok"
       THEN /\ gitpc' = "commit"
            /\ UNCHANGED <<ret, propagated>>
       ELSE Except(outcome)
    /\ UNCHANGED config
    /\ UNCHANGED analyzervars

\* self._run_git_command(['commit', '-m', commit_message]), then the test of
\* auto_push: without a push the method returns True.
Commit(outcome) ==
    /\ gitpc = "commit"
    /\ cmds' = Append(cmds,
                      Ran(<<"commit", "-m", "commit_message">>, outcome, <<>>))
    /\ IF outcome = "ok"
       THEN IF ConfigGet(config, "auto_push", TRUE)
            THEN /\ gitpc' = "push"
                 /\ UNCHANGED <<ret, propagated>>
            ELSE ReturnTrue
       ELSE Except(outcome)
    /\ UNCHANGED config
    /\ UNCHANGED analyzervars

\* self._run_git_command(['push']), then return True.
Push(outcome) ==
    /\ gitpc = "push"
    /\ cmds' = Append(cmds, Ran(<<"push">>, outcome, <<>>))
    /\ IF outcome = "ok" THEN ReturnTrue ELSE Except(outcome)
    /\ UNCHANGED config
    /\ UNCHANGED analyzervars

\* The output git status may print when it succeeds; a failed command leaves
\* nothing to read.
StatusOutputsOf(outcome) == IF outcome = "ok" THEN StatusOutputs ELSE {<<>>}

NextGit ==
    \/ /\ pc = "idle"
       /\ \E rev \in TieOrders(df) : \E p \in Regressions(df) : Analyze(rev, p)
    \/ SaveResults
    \/ MainCommit
    \/ \E outcome \in Outcomes :
           \E stdout \in StatusOutputsOf(outcome) : HasChanges(outcome, stdout)
    \/ \E outcome \in Outcomes : Add(outcome)
    \/ \E outcome \in Outcomes : Commit(outcome)
    \/ \E outcome \in Outcomes : Push(outcome)

SpecGit == InitGit /\ [][NextGit]_vars


-----------------------------------------------------------------------------
\* Properties.

\* analyze has just returned a report.
Analyzed == pc = "analyzed"

\* analyze has just returned or raised.
AnalyzeDone == pc \in {"analyzed", "analyze_raised"}

NValid == Cardinality(Valid(df))

FloatTypes == {"float", "np.float64"}

\* A reported number that is the float x.
IsFloat(val, x) == val.ty \in FloatTypes /\ val.v = x

\* A reported number that is zero, as an int or as a float.
IsZero(val) == (val.ty = "int" /\ val.v = 0) \/ IsFloat(val, Num(0))

\* A reported value that is explicitly undefined: NaN or None.
IsUndefined(val) ==
    \/ val.ty \in FloatTypes /\ IsNaN(val.v)
    \/ val.ty = "NoneType"

\* C1: with fewer than 3 non-missing values the trend is exactly
\* {slope: 0, direction: "insufficient data", p_value: 1.0, r_squared: 0};
\* r_squared is present in the sentinel as it is in the regression result.
C1_SentinelHasRSquared ==
    (Analyzed /\ NValid < 3) =>
        LET trend == results.v.trend.v
        IN  /\ DOMAIN trend = {"slope", "direction", "p_value", "r_squared"}
            /\ IsZero(trend.slope)
            /\ trend.direction.v = "insufficient data"
            /\ IsFloat(trend.p_value, Num(1))
            /\ IsZero(trend.r_squared)

\* The plain primitives of a JSON document.
PrimitiveTypes == {"float", "int", "bool", "str"}

\* C2: once save_results has normalised a report, every leaf handed to the
\* JSON writer is a plain primitive, the fields of anomaly records included.
C2_DocumentAllPrimitive ==
    pc \in {"saved", "save_raised"} => LeafTypes(document) \subseteq PrimitiveTypes

\* C3: percentile_rank is 100 times the number of non-missing values <= the
\* latest value over the number of non-missing values, so one non-missing
\* value among any number of missing ones ranks 100 and is High Flow.
C3_PercentileOverValidValues ==
    (Analyzed /\ NValid >= 1) =>
        LET flow   == results.v.flow_status.v
            latest == LatestFlow(df, tieRev)
            below  == {i \in Valid(df) : FLe(df[i].discharge_cfs, latest)}
        IN  /\ flow.percentile.v = Rat(100 * Cardinality(below), NValid)
            /\ (NValid = 1 /\ ~IsNaN(latest)) =>
                  /\ flow.percentile.v = Num(100)
                  /\ flow.status.v = "High Flow"

\* The endpoints of the recent change: the last row of the time-sorted frame
\* and the row 24 positions before the end, or the first row of a frame
\* shorter than 24.
LatestValue == df[SortValues(df, tieRev)[Len(df)]].discharge_cfs
ReferenceValue ==
    df[SortValues(df, tieRev)[IF Len(df) >= 24 THEN Len(df) - 23 ELSE 1]].discharge_cfs

MissingEndpoint == Len(df) >= 2 /\ (IsNaN(LatestValue) \/ IsNaN(ReferenceValue))

C5_EmptyRaisesInvalidInput ==
    (AnalyzeDone /\ Len(df) = 0) =>
        (pc = "analyze_raised" /\ error = "InvalidInputError")


\* A non-empty frame whose values are all missing.
AllMissing == Len(df) >= 1 /\ NValid = 0

\* The insufficient-data trend as analyze reports it.
IsInsufficientData(trend) ==
    /\ IsZero(trend.slope)
    /\ trend.direction.v = "insufficient data"
    /\ IsFloat(trend.p_value, Num(1))

\* C6 as stated: on a non-empty all-missing dataset analyze does not raise,
\* every Stats field, count included, is undefined, the trend is the
\* insufficient-data sentinel and there are no anomalies.
C6_AllMissingAllUndefined ==
    (AnalyzeDone /\ AllMissing) =>
        /\ Analyzed
        /\ \A f \in {"mean_flow", "median_flow", "std_flow", "min_flow",
                     "max_flow", "total_records", "percentile_25",
                     "percentile_75", "percentile_90"} :
              IsUndefined(results.v[f])
        /\ IsInsufficientData(results.v.trend.v)
        /\ results.v.anomalies.v = <<>>

\* C6 as amended: on a non-empty all-missing dataset analyze does not raise,
\* mean, median, std, min, max, p25, p75 and p90 are NaN, count is the number
\* of observations, the trend is the insufficient-data sentinel and there are
\* no anomalies.
C6_AllMissingStatsUndefined ==
    (AnalyzeDone /\ AllMissing) =>
        /\ Analyzed
        /\ \A f \in {"mean_flow", "median_flow", "std_flow", "min_flow",
                     "max_flow", "percentile_25", "percentile_75",
                     "percentile_90"} :
              IsUndefined(results.v[f])
        /\ results.v.total_records = PyInt(Len(df))
        /\ IsInsufficientData(results.v.trend.v)
        /\ results.v.anomalies.v = <<>>
        /\ results.v.anomaly_count = PyInt(0)

\* A report on three observations that are all missing.
C6_Witness == Analyzed /\ AllMissing /\ Len(df) = 3

\* C7: with at least 3 valid points the direction is "stable" if
\* p_value > 0.05, otherwise "increasing" if slope > 0 and "decreasing" if
\* slope <= 0; it is never "insufficient data", and p_value = 0.05 is not
\* "stable".
C7_DirectionPolicy ==
    (Analyzed /\ NValid >= 3) =>
        LET trend == results.v.trend.v
            p     == trend.p_value.v
            slope == trend.slope.v
            dir   == trend.direction.v
        IN  /\ trend.slope.ty = "float" /\ ~IsNaN(p) /\ ~IsNaN(slope)
            /\ p.num * 100 > 5 * p.den => dir = "stable"
            /\ (p.num * 100 <= 5 * p.den /\ slope.num > 0) => dir = "increasing"
            /\ (p.num * 100 <= 5 * p.den /\ slope.num <= 0) => dir = "decreasing"
            /\ dir # "insufficient data"
            /\ results.v.trend_direction.v = dir

\* A regression whose p-value is exactly 0.05 and whose direction follows the
\* sign of a negative slope.
C7_Witness ==
    /\ Analyzed /\ NValid >= 3
    /\ results.v.trend.v.p_value.v = Rat(1, 20)
    /\ results.v.trend.v.slope.v.num < 0
    /\ results.v.trend.v.direction.v = "decreasing"

\* Rows strictly outside the fence [Q1 - 1.5 IQR, Q3 + 1.5 IQR] of the
\* non-missing values.
Outside ==
    LET Q1 == Quantile(df, 1, 4)
        Q3 == Quantile(df, 3, 4)
        lower == FSub(Q1, FMul(Rat(3, 2), FSub(Q3, Q1)))
        upper == FAdd(Q3, FMul(Rat(3, 2), FSub(Q3, Q1)))
    IN  {i \in Valid(df) :
            LET x == df[i].discharge_cfs
            IN  \/ x.num * lower.den < lower.num * x.den
                \/ x.num * upper.den > upper.num * x.den}

\* C8: the anomalies are exactly the observations strictly outside the fence,
\* in dataset order; values on the fence and missing values are never flagged,
\* a constant series has no anomalies, and anomaly_count is the list's length.
C8_AnomaliesExactlyOutsideFence ==
    Analyzed =>
        LET found == results.v.anomalies.v
            out   == Outside
            nth(k) == CHOOSE i \in out : Cardinality({j \in out : j < i}) = k - 1
        IN  /\ Len(found) = Cardinality(out)
            /\ \A k \in 1..Len(found) :
                  /\ found[k].v.dateTime.v = df[nth(k)].dateTime
                  /\ found[k].v.discharge_cfs.v = df[nth(k)].discharge_cfs
                  /\ found[k].v.site_name.v = df[nth(k)].site_name
                  /\ ~IsNaN(found[k].v.discharge_cfs.v)
            /\ (\A i, j \in Valid(df) : df[i].discharge_cfs = df[j].discharge_cfs)
                  => found = <<>>
            /\ results.v.anomaly_count = PyInt(Len(found))

\* A report that flags one observation of a frame whose other values are
\* equal and sit on the collapsed fence.
C8_Witness ==
    /\ Analyzed
    /\ Len(results.v.anomalies.v) = 1
    /\ NValid >= 4
    /\ \E i \in Valid(df) : \A j, k \in Valid(df) \ {i} :
          df[j].discharge_cfs = df[k].discharge_cfs


\* C9: the recent change sorts the observations ascending by timestamp; with
\* fewer than 2 observations delta and delta_pct are 0; otherwise the latest
\* is the last sorted element, the reference is the sorted element n-24
\* (0-based) when n >= 24 and the first element when n < 24, and
\* delta = latest - reference.
C9_ReferenceSelection ==
    Analyzed =>
        LET n      == Len(df)
            sorted == SortValues(df, tieRev)
            change == results.v.recent_change.v
            at(k)  == df[sorted[k + 1]].discharge_cfs
        IN  /\ \A p \in 1..(n - 1) :
                  df[sorted[p]].dateTime <= df[sorted[p + 1]].dateTime
            /\ {sorted[p] : p \in 1..n} = 1..n
            /\ n < 2 => IsZero(change.change_cfs) /\ IsZero(change.change_pct)
            /\ (n >= 2 /\ n < 24) =>
                  IsFloat(change.change_cfs, FSub(at(n - 1), at(0)))
            /\ n >= 24 =>
                  IsFloat(change.change_cfs, FSub(at(n - 1), at(n - 24)))
            /\ n = 24 => IsFloat(change.change_cfs, FSub(at(23), at(0)))
            /\ n = 25 => IsFloat(change.change_cfs, FSub(at(24), at(1)))

\* A report on 25 observations, inserted in reverse time order, whose first
\* two sorted values differ: the reference is the second one.
C9_Witness ==
    /\ Analyzed /\ Len(df) = 25
    /\ df[1].dateTime > df[2].dateTime
    /\ LET sorted == SortValues(df, tieRev)
       IN  /\ ~IsNaN(df[sorted[1]].discharge_cfs)
           /\ ~IsNaN(df[sorted[25]].discharge_cfs)
           /\ df[sorted[1]].discharge_cfs # df[sorted[2]].discharge_cfs
           /\ results.v.recent_change.v.change_cfs.v =
                  FSub(df[sorted[25]].discharge_cfs, df[sorted[2]].discharge_cfs)

\* C10: the status follows the percentile rank by inclusive lower bounds:
\* >= 90 High Flow, >= 75 Above Normal, >= 25 Normal, >= 10 Below Normal,
\* below 10 Low Flow.
C10_StatusBuckets ==
    Analyzed =>
        LET flow   == results.v.flow_status.v
            r      == flow.percentile.v
            status == flow.status.v
            ge(b)  == r.num >= b * r.den
        IN  /\ ~IsNaN(r)
            /\ status = "High Flow" <=> ge(90)
            /\ status = "Above Normal" <=> (ge(75) /\ ~ge(90))
            /\ status = "Normal" <=> (ge(25) /\ ~ge(75))
            /\ status = "Below Normal" <=> (ge(10) /\ ~ge(25))
            /\ status = "Low Flow" <=> ~ge(10)

\* A report whose latest value ranks exactly 90 among ten values, none
\* missing, and is classified High Flow.
C10_Witness ==
    /\ Analyzed /\ NValid = Len(df)
    /\ results.v.flow_status.v.percentile.v = Num(90)
    /\ results.v.flow_status.v.status.v = "High Flow"

\* C11: for a frame of at least two rows whose latest and reference values
\* are both present, change_cfs is latest minus reference, and change_pct is
\* that difference divided by the reference times 100 when the reference is
\* not zero and exactly 0 when the reference is zero; neither is ever
\* undefined and no error is raised by the division.
C11_PercentChange ==
    (Analyzed /\ Len(df) >= 2 /\ ~MissingEndpoint) =>
        LET change == results.v.recent_change.v
            delta  == change.change_cfs
            pct    == change.change_pct
        IN  /\ error = "none"
            /\ delta.ty = "float" /\ pct.ty = "float"
            /\ ~IsNaN(delta.v) /\ ~IsNaN(pct.v)
            /\ FEq(FAdd(delta.v, ReferenceValue), LatestValue)
            /\ IF ReferenceValue.num = 0
               THEN pct.v = Num(0)
               ELSE pct.v.num * ReferenceValue.num * delta.v.den =
                        100 * delta.v.num * ReferenceValue.den * pct.v.den

\* A report over a frame whose reference value is zero and whose latest
\* value is a different number: the percentage is 0, the difference is not.
C11_Witness ==
    /\ Analyzed /\ Len(df) >= 2 /\ ~MissingEndpoint
    /\ ReferenceValue = Num(0)
    /\ FGt(LatestValue, Num(0))
    /\ results.v.recent_change.v.change_pct.v = Num(0)
    /\ results.v.recent_change.v.change_cfs.v = LatestValue

\* A report over a frame whose reference value is not zero and differs from
\* the latest value: the percentage is not 0.
C11_WitnessNonZero ==
    /\ Analyzed /\ Len(df) >= 2 /\ ~MissingEndpoint
    /\ FGt(ReferenceValue, Num(0))
    /\ FNe(LatestValue, ReferenceValue)
    /\ FNe(results.v.recent_change.v.change_pct.v, Num(0))

\* The number p is the qn/qd quantile of the non-missing values of the frame
\* by linear interpolation: with h = (m - 1) * qn / qd, it lies between the
\* order statistics at floor(h) and floor(h) + 1 (counted from 0), at the
\* fraction frac(h) of the way.
Interpolates(p, qn, qd) ==
    LET h  == (NValid - 1) * qn
        i  == h \div qd
        r  == h % qd
        lo == KthSmallest(df, i + 1)
        hi == IF r = 0 THEN lo ELSE KthSmallest(df, i + 2)
    IN  /\ FLe(lo, p) /\ FLe(p, hi)
        /\ FEq(FMul(Num(qd), FSub(p, lo)), FMul(Num(r), FSub(hi, lo)))

Step(i) == cmds[i].cmd[2]
StepOk(i) == cmds[i].outcome = "ok"
Succeeded(name) == \E i \in 1..Len(cmds) : Step(i) = name /\ StepOk(i)
Attempted(name) == \E i \in 1..Len(cmds) : Step(i) = name

\* git status succeeded and printed something other than whitespace.
TreeHadChanges ==
    /\ Len(cmds) >= 1 /\ Step(1) = "status" /\ StepOk(1)
    /\ \E j \in 1..Len(cmds[1].stdout) : cmds[1].stdout[j] \notin {" ", "\n"}

\* auto_push is enabled or unset / is set to false.
PushEnabled == "auto_push" \in DOMAIN config => config.auto_push
PushDisabled == "auto_push" \in DOMAIN config /\ ~config.auto_push

GitOrder == <<"status", "add", "commit", "push">>

\* C13: commit_and_push runs its git commands in the order status, add,
\* commit, push and stops at the first one that fails; it returns True only
\* if the tree had changes and add and commit succeeded, and push too when
\* auto_push is enabled or unset; it returns False having run only status
\* when there are no changes or status fails; push is never run when
\* auto_push is false or after a failed add or commit; and no failure
\* reaches the caller as an exception.
C13_CommitAndPush ==
    /\ Len(cmds) <= Len(GitOrder)
    /\ \A i \in 1..Len(cmds) :
           /\ cmds[i].cmd[1] = "git" /\ Step(i) = GitOrder[i]
           /\ i < Len(cmds) => StepOk(i)
           /\ ~StepOk(i) => (gitpc = "returned" /\ ret = "False")
    /\ ret = "True" =>
           /\ gitpc = "returned"
           /\ TreeHadChanges /\ Succeeded("add") /\ Succeeded("commit")
           /\ PushEnabled => Succeeded("push")
    /\ (Len(cmds) >= 1 /\ ~TreeHadChanges) =>
           /\ gitpc = "returned" /\ ret = "False"
           /\ Len(cmds) = 1
    /\ Len(cmds) >= 2 => TreeHadChanges
    /\ PushDisabled => ~Attempted("push")
    /\ Attempted("push") => (Succeeded("add") /\ Succeeded("commit"))
    /\ propagated = "none" /\ gitpc # "raised"
    /\ gitpc = "returned" <=> ret \in {"True", "False"}
    /\ gitpc \in {"returned", "has_changes", "add", "commit", "push"}
           => config.auto_commit

\* commit_and_push returned True with auto_push unset: the four commands
\* ran in order and all succeeded.
C13_Witness ==
    /\ gitpc = "returned" /\ ret = "True"
    /\ "auto_push" \notin DOMAIN config
    /\ Len(cmds) = 4 /\ \A i \in 1..4 : StepOk(i)

\* commit_and_push returned False after commit raised an error that is not
\* a CalledProcessError: push was not run.
C13_WitnessFailedCommit ==
    /\ gitpc = "returned" /\ ret = "False"
    /\ Len(cmds) = 3 /\ cmds[3].outcome = "FileNotFoundError"
    /\ PushEnabled

\* commit_and_push returned True without a push because auto_push is false.
C13_WitnessNoPush ==
    /\ gitpc = "returned" /\ ret = "True"
    /\ PushDisabled /\ Len(cmds) = 3

\* commit_and_push returned False because git status printed only
\* whitespace.
C13_WitnessNoChanges ==
    /\ gitpc = "returned" /\ ret = "False"
    /\ Len(cmds) = 1 /\ StepOk(1) /\ Len(cmds[1].stdout) = MaxOut

====
